---- MODULE Spec2Model ----
(***************************************************************************)
(* The infinite-canvas interaction machine of src/src/main.ts: the xstate  *)
(* machine "canvas" (idle.outside, idle.over, dragging, panning.idle,      *)
(* panning.active), its context, the 2D surface it draws on and the DOM    *)
(* events window.onload wires to canvasService.send.                       *)
(*                                                                         *)
(* Numbers are exact rationals <<n, d>> (d > 0, lowest terms): the model   *)
(* follows the arithmetic of the code, not the rounding of IEEE doubles.   *)
(***************************************************************************)
EXTENDS Integers, Sequences, FiniteSets, TLC

\* ------------------------------------------------------------ bounds

\* Most placements kept in ctx.images (GENERATE is not delivered beyond it).
MaxImages == 1
\* The generation frame stays within MaxCell grid cells of the origin on
\* each axis (a pointer-move that would drag it further is not delivered).
MaxCell == 1
\* The translation e, f of the transform stays within MaxPan grid cells of
\* the origin on each axis (a pan or zoom that would take it further is not
\* delivered).
MaxPan == 1

\* ------------------------------------------------- program constants

CELL_SIZE == 32
FRAME_HEIGHT == 576
FRAME_WIDTH == 576

\* --------------------------------------------------------- rationals

RECURSIVE Gcd(_, _)
Gcd(m, n) == IF n = 0 THEN m ELSE Gcd(n, m % n)

Abs(n) == IF n < 0 THEN -n ELSE n

\* The number n/d in lowest terms with a positive denominator.
Norm(n, d) ==
  IF d = 1 THEN <<n, 1>>
  ELSE LET s == IF d < 0 THEN -1 ELSE 1
           g == Gcd(Abs(n), Abs(d))
       IN <<(s * n) \div g, (s * d) \div g>>

R(n) == <<n, 1>>
Zero == R(0)
One == R(1)

Add(x, y) == IF x[2] = y[2] THEN Norm(x[1] + y[1], x[2])
             ELSE Norm(x[1] * y[2] + y[1] * x[2], x[2] * y[2])
Neg(x) == <<-x[1], x[2]>>
Sub(x, y) == Add(x, Neg(y))
Mul(x, y) == Norm(x[1] * y[1], x[2] * y[2])
\* x / y for y # 0.
Div(x, y) == Norm(x[1] * y[2], x[2] * y[1])
Lt(x, y) == x[1] * y[2] < y[1] * x[2]
Gt(x, y) == Lt(y, x)

Leq(x, y) == ~Lt(y, x)
IsInt(x) == x[2] = 1

\* Math.round: the integer nearest to x, a tie going to the larger one
\* (floor(x + 1/2)), as a rational.
MathRoundHalfAwayFromZero(x) ==
  IF x[1] < 0 THEN R(-((2 * (-x[1]) + x[2]) \div (2 * x[2])))
  ELSE R((2 * x[1] + x[2]) \div (2 * x[2]))
MathRound(x) == R((2 * x[1] + x[2]) \div (2 * x[2]))

\* Math.exp(-deltaY / 100) at the wheel deltas the model sends: +-139 stands
\* for deltaY = +-100 ln 4, where the factor is 1/4 and 4.
MathExpDelta(deltaY) ==
  CASE deltaY = 0 -> One
    [] deltaY = -139 -> R(4)
    [] deltaY = 139 -> <<1, 4>>

\* ------------------------------------------- DOMPoint, DOMMatrixReadOnly

DOMPoint(x, y) == [x |-> x, y |-> y]

\* new DOMMatrixReadOnly(): the identity [[a c e] [b d f] [0 0 1]].
IdentityMatrix ==
  [a |-> One, b |-> Zero, c |-> Zero, d |-> One, e |-> Zero, f |-> Zero]

\* m.translate(tx, ty): m post-multiplied by the translation.
Translate(m, tx, ty) ==
  [m EXCEPT !.e = Add(Add(Mul(m.a, tx), Mul(m.c, ty)), m.e),
            !.f = Add(Add(Mul(m.b, tx), Mul(m.d, ty)), m.f)]

\* m.scale(s): m post-multiplied by the uniform scale s.
Scale(m, s) ==
  [m EXCEPT !.a = Mul(m.a, s), !.b = Mul(m.b, s),
            !.c = Mul(m.c, s), !.d = Mul(m.d, s)]

Det(m) == Sub(Mul(m.a, m.d), Mul(m.b, m.c))

\* m.inverse() of an invertible m (the machine keeps a = d > 0, b = c = 0).
Inverse(m) ==
  LET det == Det(m)
  IN [a |-> Div(m.d, det),
      b |-> Div(Neg(m.b), det),
      c |-> Div(Neg(m.c), det),
      d |-> Div(m.a, det),
      e |-> Div(Sub(Mul(m.c, m.f), Mul(m.d, m.e)), det),
      f |-> Div(Sub(Mul(m.b, m.e), Mul(m.a, m.f)), det)]

\* m.transformPoint(p), and p.matrixTransform(m).
TransformPoint(m, p) ==
  DOMPoint(Add(Add(Mul(m.a, p.x), Mul(m.c, p.y)), m.e),
           Add(Add(Mul(m.b, p.x), Mul(m.d, p.y)), m.f))

\* ---------------------------------------------------------- the inputs

\* Pointer positions <<pageX, pageY>> of mouse events: the initial frame's
\* corner and three points inside it, a quarter of a cell, half a cell and a
\* cell and a half from the corner on both axes.
Points == {<<0, 0>>, <<8, 8>>, <<16, 16>>, <<48, 48>>}
\* <<movementX, movementY>> of a pointer-move, <<deltaX, deltaY>> of a
\* wheel event sent with no modifier key.
Deltas == {<<16, 32>>, <<-16, -32>>}
\* deltaY of a wheel event with ctrl or meta held (see MathExpDelta).
ZoomDeltaYs == {-139, 139}
\* Where the wheel is turned.
WheelPoints == {<<16, 32>>}
Keys == {" ", "a"}
\* elCanvas.offsetWidth x offsetHeight: the sizes the viewport takes.
ViewportSizes == {<<800, 600>>, <<1024, 768>>}

MouseEvent(type, p, m) ==
  [type |-> type, pageX |-> p[1], pageY |-> p[2],
   movementX |-> m[1], movementY |-> m[2]]

\* A pointer-move carries a position and a movement.
MouseMoveEvents == {MouseEvent("mousemove", p, m) : p \in Points, m \in Deltas}
\* movementX and movementY are zero on events other than mousemove.
MouseButtonEvents(type) == {MouseEvent(type, p, <<0, 0>>) : p \in Points}

\* preventDefault stands for the event's preventDefault method.
WheelEvent(p, d, ctrlKey, metaKey) ==
  [type |-> "wheel", pageX |-> p[1], pageY |-> p[2],
   deltaX |-> d[1], deltaY |-> d[2], ctrlKey |-> ctrlKey, metaKey |-> metaKey,
   preventDefault |-> TRUE]

WheelEvents ==
  {WheelEvent(p, <<0, dy>>, k[1], k[2]) :
     p \in WheelPoints, dy \in ZoomDeltaYs, k \in {<<TRUE, FALSE>>, <<FALSE, TRUE>>}}
  \cup {WheelEvent(p, d, FALSE, FALSE) : p \in WheelPoints, d \in Deltas}

KeyboardEvents(type) == [type : {type}, key : Keys]

\* Events send() accepts that lack the fields a DOM event of their type
\* carries (an absent field reads as undefined): a wheel event that is a
\* plain object with positions and deltas only, key events without a key,
\* mouse events without coordinates.
MalformedEvents ==
  {[type |-> "wheel", pageX |-> p[1], pageY |-> p[2],
    deltaX |-> d[1], deltaY |-> d[2]] : p \in WheelPoints, d \in Deltas}
  \cup {[type |-> t] : t \in {"keydown", "keyup", "mousemove", "mousedown", "mouseup"}}

\* evt[f] where the code passes it as an optional double argument of a DOM
\* constructor or method (new DOMPoint(x, y), translate(tx, ty)): undefined
\* takes the argument's default, 0.
Double(evt, f) == IF f \in DOMAIN evt THEN R(evt[f]) ELSE Zero
\* new DOMPoint(evt.pageX, evt.pageY)
PagePoint(evt) == DOMPoint(Double(evt, "pageX"), Double(evt, "pageY"))

\* ------------------------------------------------------------ the state

VARIABLES
  state,     \* the machine's state value: "idle.outside", "idle.over", ...
  ctx,       \* the machine's context (CanvasMachineContext)
  canvas,    \* elCanvas and its 2D context: width, height, cursor, transform
  viewport,  \* the live layout size elCanvas.offsetWidth / offsetHeight
  defaultPrevented,  \* whether preventDefault ran on the event sent last
  hoverMove  \* in idle.over, the position of the pointer-move sent last
             \* (as a one-element set; empty in the other states)

vars == <<state, ctx, canvas, viewport, defaultPrevented, hoverMove>>

States ==
  {"idle.outside", "idle.over", "dragging", "panning.idle", "panning.active"}

InIdle(s) == s \in {"idle.outside", "idle.over"}
InPanning(s) == s \in {"panning.idle", "panning.active"}

\* The context of createMachine, with the canvas sized to the viewport.
InitialContext(size) ==
  [width |-> size[1],
   height |-> size[2],
   images |-> <<>>,
   dragStart |-> DOMPoint(Zero, Zero),
   generationFrame |->
     [x |-> Zero, y |-> Zero, width |-> R(FRAME_WIDTH), height |-> R(FRAME_HEIGHT)],
   oldGenerationFrame |->
     [x |-> Zero, y |-> Zero, width |-> R(FRAME_WIDTH), height |-> R(FRAME_HEIGHT)],
   transform |-> IdentityMatrix]

\* -------------------------------------------------- guards and actions

isMouseDownEvent(evt) == evt.type = "mousedown"
isMouseMoveEvent(evt) == evt.type = "mousemove"
isWheelEvent(evt) == evt.type = "wheel"

\* undefined === " " is false, and undefined is falsy.
isSpaceKey(evt) == "key" \in DOMAIN evt /\ evt.key = " "
ctrlKeyIsPressed(evt) == "ctrlKey" \in DOMAIN evt /\ evt.ctrlKey
metaKeyIsPressed(evt) == "metaKey" \in DOMAIN evt /\ evt.metaKey

\* The action preventDefault calls evt.preventDefault(): a TypeError when
\* the event has no such method.
preventDefaultThrows(evt) == "preventDefault" \notin DOMAIN evt

\* The hit test: the event's point, taken to world space by the inverse of
\* the surface's live transform, lies strictly inside the generation frame.
isOverGenerationFrameClosed(c, surface, evt) ==
  /\ isMouseMoveEvent(evt)
  /\ LET p == TransformPoint(Inverse(surface), PagePoint(evt))
         g == c.generationFrame
     IN /\ Leq(g.x, p.x)
        /\ Leq(p.x, Add(g.x, g.width))
        /\ Leq(g.y, p.y)
        /\ Leq(p.y, Add(g.y, g.height))
isOverGenerationFrame(c, surface, evt) ==
  /\ isMouseMoveEvent(evt)
  /\ LET p == TransformPoint(Inverse(surface), PagePoint(evt))
         g == c.generationFrame
     IN /\ Gt(p.x, g.x)
        /\ Lt(p.x, Add(g.x, g.width))
        /\ Gt(p.y, g.y)
        /\ Lt(p.y, Add(g.y, g.height))

setDragStart(c, evt) ==
  IF ~isMouseDownEvent(evt) THEN c
  ELSE [c EXCEPT !.dragStart = PagePoint(evt)]

\* generate: a placement with the frame's geometry, appended to the list.
generateReplace(c) ==
  LET g == c.generationFrame
  IN [c EXCEPT !.images =
        <<[x |-> g.x, y |-> g.y, width |-> g.width, height |-> g.height,
           image |-> [src |-> <<g.width, g.height>>]]>>]
generate(c) ==
  LET g == c.generationFrame
  IN [c EXCEPT !.images =
        Append(@, [x |-> g.x, y |-> g.y, width |-> g.width, height |-> g.height,
                   image |-> [src |-> <<g.width, g.height>>]])]

copyNothing(c) == c
copyGenerationFrame(c) == [c EXCEPT !.oldGenerationFrame = c.generationFrame]

\* One axis of the drag: the candidate snapped to the grid.
SnapNone(v) == v
Snap(v) == Mul(MathRound(Div(v, R(CELL_SIZE))), R(CELL_SIZE))

updateGenerationFrameFromCurrent(c, evt) ==
  IF ~isMouseMoveEvent(evt) THEN c
  ELSE
    LET inv == Inverse(c.transform)
        transformedDragStart == TransformPoint(inv, c.dragStart)
        transformedMousePoint ==
          TransformPoint(inv, PagePoint(evt))
        deltaX == Sub(transformedMousePoint.x, transformedDragStart.x)
        deltaY == Sub(transformedMousePoint.y, transformedDragStart.y)
    IN [c EXCEPT !.generationFrame =
          [x |-> Snap(Add(c.generationFrame.x, deltaX)),
           y |-> Snap(Add(c.generationFrame.y, deltaY)),
           width |-> R(FRAME_WIDTH), height |-> R(FRAME_HEIGHT)]]
updateGenerationFrameRebasing(c, evt) ==
  IF ~isMouseMoveEvent(evt) THEN c
  ELSE
    LET inv == Inverse(c.transform)
        transformedDragStart == TransformPoint(inv, c.dragStart)
        transformedMousePoint == TransformPoint(inv, PagePoint(evt))
        deltaX == Sub(transformedMousePoint.x, transformedDragStart.x)
        deltaY == Sub(transformedMousePoint.y, transformedDragStart.y)
        frame == [x |-> Snap(Add(c.oldGenerationFrame.x, deltaX)),
                  y |-> Snap(Add(c.oldGenerationFrame.y, deltaY)),
                  width |-> R(FRAME_WIDTH), height |-> R(FRAME_HEIGHT)]
    IN [c EXCEPT !.generationFrame = frame, !.oldGenerationFrame = frame,
                 !.dragStart = PagePoint(evt)]
updateGenerationFrame(c, evt) ==
  IF ~isMouseMoveEvent(evt) THEN c
  ELSE
    LET inv == Inverse(c.transform)
        transformedDragStart == TransformPoint(inv, c.dragStart)
        transformedMousePoint ==
          TransformPoint(inv, PagePoint(evt))
        deltaX == Sub(transformedMousePoint.x, transformedDragStart.x)
        deltaY == Sub(transformedMousePoint.y, transformedDragStart.y)
        x == Add(c.oldGenerationFrame.x, deltaX)
        y == Add(c.oldGenerationFrame.y, deltaY)
    IN [c EXCEPT !.generationFrame =
          [x |-> Snap(x), y |-> Snap(y),
           width |-> R(FRAME_WIDTH), height |-> R(FRAME_HEIGHT)]]

\* The zoom bound of updateScale: the new transform is kept only when its
\* a lies in [0.1, 10].
ScaleRejectedNever(t) == FALSE
ScaleRejected(t) == Lt(t.a, <<1, 10>>) \/ Gt(t.a, R(10))

\* The transform updateScale computes for the scale amount s about the
\* screen point p, before the bound is applied.
ZoomAboutOrigin(t, s, p) == Scale(t, s)
ZoomAbout(t, s, p) ==
  LET transformedCursor == TransformPoint(Inverse(t), p)
  IN Translate(Scale(Translate(t, transformedCursor.x, transformedCursor.y), s),
               Neg(transformedCursor.x), Neg(transformedCursor.y))

updateScaleKeepsTranslation(c, evt) ==
  IF ~isWheelEvent(evt) THEN c
  ELSE
    LET scaleAmount == MathExpDelta(evt.deltaY)
        transform == ZoomAbout(c.transform, scaleAmount, PagePoint(evt))
    IN IF ScaleRejected(transform)
       THEN [c EXCEPT !.transform =
               [transform EXCEPT !.a = c.transform.a, !.d = c.transform.d]]
       ELSE [c EXCEPT !.transform = transform]
updateScale(c, evt) ==
  IF ~isWheelEvent(evt) THEN c
  ELSE
    LET scaleAmount == MathExpDelta(evt.deltaY)
        transform == ZoomAbout(c.transform, scaleAmount,
                               PagePoint(evt))
    IN IF ScaleRejected(transform) THEN c
       ELSE [c EXCEPT !.transform = transform]

\* The pan of updateOffset: the delta applied in the de-scaled space.
PanByScaled(t, dx, dy) == Translate(t, dx, dy)
PanBy(t, dx, dy) == Scale(Translate(Scale(t, Div(One, t.a)), dx, dy), t.a)

updateOffsetByWheelDelta(c, evt) ==
  IF isMouseMoveEvent(evt)
  THEN [c EXCEPT !.transform =
          PanBy(c.transform, Double(evt, "movementX"), Double(evt, "movementY"))]
  ELSE IF isWheelEvent(evt)
  THEN [c EXCEPT !.transform = PanBy(c.transform, R(evt.deltaX), R(evt.deltaY))]
  ELSE c
updateOffset(c, evt) ==
  IF isMouseMoveEvent(evt)
  THEN [c EXCEPT !.transform =
          PanBy(c.transform, Double(evt, "movementX"), Double(evt, "movementY"))]
  ELSE IF isWheelEvent(evt)
  THEN [c EXCEPT !.transform = PanBy(c.transform, R(-evt.deltaX), R(-evt.deltaY))]
  ELSE c

\* --------------------------------------------------------- the machine

\* What one send() computes: the next state value and context, the cursor
\* the entry actions leave, and whether preventDefault ran.
Outcome(s, c, cursor, prevented) ==
  [state |-> s, ctx |-> c, cursor |-> cursor, prevented |-> prevented,
   threw |-> FALSE]

\* An action threw: the error leaves send(), no transition is taken and the
\* state and the context stay what they were.
Thrown(s, c, cursor) == [Outcome(s, c, cursor, FALSE) EXCEPT !.threw = TRUE]

\* The states whose "on" holds a wheel transition (idle and its substates).
WheelHandledEverywhere(s) == TRUE
WheelHandled(s) == InIdle(s)

\* resize, on the root: updateSize, which assigns nothing to the context.
OnResize(s, c, cursor, evt) == Outcome(s, c, cursor, FALSE)

\* GENERATE, on idle.
OnGenerate(s, c, cursor, evt) ==
  IF InIdle(s) THEN Outcome(s, generate(c), cursor, FALSE)
  ELSE Outcome(s, c, cursor, FALSE)

\* mousemove: idle.over's own transitions, idle's, dragging's and
\* panning.active's.
OnMouseMoveDragsWhilePanning(s, c, cursor, surface, evt) ==
  CASE s = "idle.outside" ->
         IF isOverGenerationFrame(c, surface, evt)
         THEN Outcome("idle.over", c, "pointer", FALSE)
         ELSE Outcome(s, c, cursor, FALSE)
    [] s = "idle.over" ->
         IF isOverGenerationFrame(c, surface, evt)
         THEN Outcome(s, c, cursor, FALSE)
         ELSE Outcome("idle.outside", c, "default", FALSE)
    [] s = "dragging" -> Outcome(s, updateGenerationFrame(c, evt), cursor, FALSE)
    [] s = "panning.active" ->
         Outcome(s, updateGenerationFrame(updateOffset(c, evt), evt), cursor, FALSE)
    [] OTHER -> Outcome(s, c, cursor, FALSE)
OnMouseMove(s, c, cursor, surface, evt) ==
  CASE s = "idle.outside" ->
         IF isOverGenerationFrame(c, surface, evt)
         THEN Outcome("idle.over", c, "pointer", FALSE)
         ELSE Outcome(s, c, cursor, FALSE)
    [] s = "idle.over" ->
         IF isOverGenerationFrame(c, surface, evt)
         THEN Outcome(s, c, cursor, FALSE)
         ELSE Outcome("idle.outside", c, "default", FALSE)
    [] s = "dragging" -> Outcome(s, updateGenerationFrame(c, evt), cursor, FALSE)
    [] s = "panning.active" -> Outcome(s, updateOffset(c, evt), cursor, FALSE)
    [] OTHER -> Outcome(s, c, cursor, FALSE)

\* mousedown: idle.over's (to dragging) and panning.idle's (to active).
OnMouseDown(s, c, cursor, evt) ==
  CASE s = "idle.over" ->
         Outcome("dragging", copyGenerationFrame(setDragStart(c, evt)),
                 "grabbing", FALSE)
    [] s = "panning.idle" -> Outcome("panning.active", c, "grabbing", FALSE)
    [] OTHER -> Outcome(s, c, cursor, FALSE)

\* mouseup: dragging's (to idle, whose initial state is outside) and
\* panning.active's (to panning.idle).
OnMouseUpKeepsCursor(s, c, cursor, evt) ==
  CASE s = "dragging" -> Outcome("idle.outside", c, cursor, FALSE)
    [] s = "panning.active" -> Outcome("panning.idle", c, cursor, FALSE)
    [] OTHER -> Outcome(s, c, cursor, FALSE)
OnMouseUp(s, c, cursor, evt) ==
  CASE s = "dragging" -> Outcome("idle.outside", c, "default", FALSE)
    [] s = "panning.active" -> Outcome("panning.idle", c, "grab", FALSE)
    [] OTHER -> Outcome(s, c, cursor, FALSE)

\* wheel, on idle: the first transition whose guard holds.
OnWheel(s, c, cursor, evt) ==
  IF ~WheelHandled(s) THEN Outcome(s, c, cursor, FALSE)
  ELSE IF preventDefaultThrows(evt) THEN Thrown(s, c, cursor)
  ELSE IF ctrlKeyIsPressed(evt) THEN Outcome(s, updateScale(c, evt), cursor, TRUE)
  ELSE IF metaKeyIsPressed(evt) THEN Outcome(s, updateScale(c, evt), cursor, TRUE)
  ELSE Outcome(s, updateOffset(c, evt), cursor, TRUE)

\* keydown, on idle (to panning, whose initial state is idle).
OnKeyDown(s, c, cursor, evt) ==
  IF InIdle(s) /\ isSpaceKey(evt) THEN Outcome("panning.idle", c, "grab", FALSE)
  ELSE Outcome(s, c, cursor, FALSE)

\* keyup, on panning (to idle, whose initial state is outside).
OnKeyUp(s, c, cursor, evt) ==
  IF InPanning(s) THEN Outcome("idle.outside", c, "default", FALSE)
  ELSE Outcome(s, c, cursor, FALSE)

\* canvasService.send(evt): the transition the machine selects for the
\* event's type in the state s; an event of another type selects none.
Send(s, c, cursor, surface, evt) ==
  CASE evt.type = "resize" -> OnResize(s, c, cursor, evt)
    [] evt.type = "GENERATE" -> OnGenerate(s, c, cursor, evt)
    [] evt.type = "mousemove" -> OnMouseMove(s, c, cursor, surface, evt)
    [] evt.type = "mousedown" -> OnMouseDown(s, c, cursor, evt)
    [] evt.type = "mouseup" -> OnMouseUp(s, c, cursor, evt)
    [] evt.type = "wheel" -> OnWheel(s, c, cursor, evt)
    [] evt.type = "keydown" -> OnKeyDown(s, c, cursor, evt)
    [] evt.type = "keyup" -> OnKeyUp(s, c, cursor, evt)
    [] OTHER -> Outcome(s, c, cursor, FALSE)

\* ------------------------------------------------- the model's bounds

WithinCells(v) ==
  /\ Leq(R(-(MaxCell * CELL_SIZE)), v)
  /\ Leq(v, R(MaxCell * CELL_SIZE))

WithinPan(v) ==
  /\ Leq(R(-(MaxPan * CELL_SIZE)), v)
  /\ Leq(v, R(MaxPan * CELL_SIZE))

InBounds(c) ==
  /\ Len(c.images) <= MaxImages
  /\ WithinCells(c.generationFrame.x)
  /\ WithinCells(c.generationFrame.y)
  /\ WithinPan(c.transform.e)
  /\ WithinPan(c.transform.f)

\* ------------------------------------------------------------ actions

\* canvasService.start(): idle.outside entered, the first render done.
Init ==
  LET size == <<800, 600>>
  IN /\ state = "idle.outside"
     /\ ctx = InitialContext(size)
     /\ viewport = [offsetWidth |-> size[1], offsetHeight |-> size[2]]
     /\ canvas = [width |-> size[1], height |-> size[2], cursor |-> "default",
                  transform |-> IdentityMatrix]
     /\ defaultPrevented = FALSE
     /\ hoverMove = {}

\* The end of a send(): the machine's new state, and the onTransition
\* listener's render, which leaves the surface on the context's transform
\* (a send() that threw updates nothing and renders nothing).
DeliverWithoutSetTransform(out, cv) ==
  /\ InBounds(out.ctx)
  /\ state' = out.state
  /\ ctx' = out.ctx
  /\ canvas' = [cv EXCEPT !.cursor = out.cursor]
  /\ defaultPrevented' = out.prevented
Deliver(out, cv) ==
  /\ InBounds(out.ctx)
  /\ state' = out.state
  /\ ctx' = out.ctx
  /\ canvas' = IF out.threw THEN cv
               ELSE [cv EXCEPT !.cursor = out.cursor,
                               !.transform = out.ctx.transform]
  /\ defaultPrevented' = out.prevented

\* The pointer's position as the pointer-move listener last saw it, for as
\* long as the machine is over the frame: idle.over is entered by a
\* pointer-move only.
Hover(evt, out) ==
  hoverMove' = IF out.state # "idle.over" THEN {}
               ELSE IF isMouseMoveEvent(evt) THEN {PagePoint(evt)}
               ELSE hoverMove

\* The viewport takes a new size and the window's resize event is sent:
\* updateSize sets the canvas's size, which resets the surface's transform.
Resize ==
  \E size \in ViewportSizes :
    LET evt == [type |-> "resize"]
        cv == [canvas EXCEPT !.width = size[1], !.height = size[2],
                             !.transform = IdentityMatrix]
    IN /\ viewport' = [offsetWidth |-> size[1], offsetHeight |-> size[2]]
       /\ Deliver(OnResize(state, ctx, canvas.cursor, evt), cv)
       /\ Hover(evt, OnResize(state, ctx, canvas.cursor, evt))

Generate ==
  LET evt == [type |-> "GENERATE"]
  IN /\ Deliver(OnGenerate(state, ctx, canvas.cursor, evt), canvas)
     /\ Hover(evt, OnGenerate(state, ctx, canvas.cursor, evt))
     /\ UNCHANGED viewport

MouseMove ==
  \E evt \in MouseMoveEvents :
    /\ Deliver(OnMouseMove(state, ctx, canvas.cursor, canvas.transform, evt),
               canvas)
    /\ Hover(evt, OnMouseMove(state, ctx, canvas.cursor, canvas.transform, evt))
    /\ UNCHANGED viewport

MouseDown ==
  \E evt \in MouseButtonEvents("mousedown") :
    /\ Deliver(OnMouseDown(state, ctx, canvas.cursor, evt), canvas)
    /\ Hover(evt, OnMouseDown(state, ctx, canvas.cursor, evt))
    /\ UNCHANGED viewport

MouseUp ==
  \E evt \in MouseButtonEvents("mouseup") :
    /\ Deliver(OnMouseUp(state, ctx, canvas.cursor, evt), canvas)
    /\ Hover(evt, OnMouseUp(state, ctx, canvas.cursor, evt))
    /\ UNCHANGED viewport

Wheel ==
  \E evt \in WheelEvents :
    /\ Deliver(OnWheel(state, ctx, canvas.cursor, evt), canvas)
    /\ Hover(evt, OnWheel(state, ctx, canvas.cursor, evt))
    /\ UNCHANGED viewport

KeyDown ==
  \E evt \in KeyboardEvents("keydown") :
    /\ Deliver(OnKeyDown(state, ctx, canvas.cursor, evt), canvas)
    /\ Hover(evt, OnKeyDown(state, ctx, canvas.cursor, evt))
    /\ UNCHANGED viewport

KeyUp ==
  \E evt \in KeyboardEvents("keyup") :
    /\ Deliver(OnKeyUp(state, ctx, canvas.cursor, evt), canvas)
    /\ Hover(evt, OnKeyUp(state, ctx, canvas.cursor, evt))
    /\ UNCHANGED viewport

\* send() called with an event that lacks fields.
SendMalformed ==
  \E evt \in MalformedEvents :
    /\ Deliver(Send(state, ctx, canvas.cursor, canvas.transform, evt), canvas)
    /\ Hover(evt, Send(state, ctx, canvas.cursor, canvas.transform, evt))
    /\ UNCHANGED viewport

Next ==
  \/ SendMalformed
  \/ Resize
  \/ Generate
  \/ MouseMove
  \/ MouseDown
  \/ MouseUp
  \/ Wheel
  \/ KeyDown
  \/ KeyUp

Spec == Init /\ [][Next]_vars

\* ------------------------------------------------------------- claims

\* Points and deltas the claims about single handlers are tried on, beyond
\* those the events above carry: points on each edge of the initial frame,
\* one unit inside and outside it, and off the diagonal.
ProbePoints ==
  Points \cup {<<0, 16>>, <<16, 0>>, <<576, 16>>, <<16, 576>>, <<575, 575>>,
               <<577, 300>>, <<1, 1>>, <<144, 80>>, <<13, 7>>}
ProbeDeltas == Deltas \cup {<<0, 0>>, <<5, -3>>, <<-7, 11>>}

ProbeMoves == {MouseEvent("mousemove", p, <<0, 0>>) : p \in ProbePoints}
ProbePans == {MouseEvent("mousemove", <<0, 0>>, d) : d \in ProbeDeltas}
ProbeZooms ==
  {WheelEvent(p, <<0, dy>>, TRUE, FALSE) : p \in ProbePoints, dy \in ZoomDeltaYs}

IsMultipleOfCell(v) == IsInt(v) /\ v[1] % CELL_SIZE = 0

OnGrid(g) ==
  /\ IsMultipleOfCell(g.x)
  /\ IsMultipleOfCell(g.y)
  /\ g.width = R(FRAME_WIDTH)
  /\ g.height = R(FRAME_HEIGHT)

\* The world-space point of a screen point under the transform t of the
\* context (t has b = c = 0): (p - (e, f)) / (a, d).
WorldOfPoint(t, p) == DOMPoint(Div(Sub(p.x, t.e), t.a), Div(Sub(p.y, t.f), t.d))
WorldOf(t, p) == WorldOfPoint(t, DOMPoint(R(p[1]), R(p[2])))

\* C1: in every reachable state the generation frame's x and y are
\* multiples of CELL_SIZE and its size is FRAME_WIDTH x FRAME_HEIGHT, and
\* while dragging every pointer-move, at any position, leaves it so.
C1_FrameOnGrid ==
  /\ OnGrid(ctx.generationFrame)
  /\ state = "dragging" =>
       \A evt \in ProbeMoves :
         OnGrid(OnMouseMove(state, ctx, canvas.cursor, canvas.transform, evt)
                  .ctx.generationFrame)

\* A drag at zoom 1/4 has moved the frame off its drag-start position.
C1_Witness ==
  /\ state = "dragging"
  /\ ctx.transform.a = <<1, 4>>
  /\ ctx.generationFrame.x # ctx.oldGenerationFrame.x

\* C2: in every reachable state the transform's a lies in [0.1, 10], and no
\* zoom wheel event takes it outside.
C2_ScaleBounded ==
  /\ Leq(<<1, 10>>, ctx.transform.a)
  /\ Leq(ctx.transform.a, R(10))
  /\ \A evt \in ProbeZooms :
       LET t == OnWheel(state, ctx, canvas.cursor, evt).ctx.transform
       IN Leq(<<1, 10>>, t.a) /\ Leq(t.a, R(10))

\* The scale stands at 4 after a wheel event, and a further zoom in (to 16)
\* is one the bound rejects.
C2_Witness ==
  /\ defaultPrevented
  /\ ctx.transform.a = R(4)
  /\ \E evt \in WheelEvents :
       /\ evt.ctrlKey
       /\ ScaleRejected(ZoomAbout(ctx.transform, MathExpDelta(evt.deltaY),
                                  PagePoint(evt)))

\* C3: for the reachable transform T and every zoom wheel event at a point
\* p, the transform T' updateScale leaves maps the same world point to p:
\* T'.inverse()(p) = T.inverse()(p), and T'(T.inverse()(p)) = p.
C3_ZoomFixesCursor ==
  \A evt \in ProbeZooms :
    LET p == PagePoint(evt)
        t == ctx.transform
        t2 == updateScale(ctx, evt).transform
    IN /\ TransformPoint(Inverse(t2), p) = TransformPoint(Inverse(t), p)
       /\ TransformPoint(t2, TransformPoint(Inverse(t), p)) = p

\* After a zoom out about the screen point (16, 32) the world point that
\* was under it is still drawn there, the transform no longer the identity.
C3_Witness ==
  /\ defaultPrevented
  /\ ctx.transform.a = <<1, 4>>
  /\ ctx.transform.e # Zero
  /\ TransformPoint(ctx.transform, DOMPoint(R(16), R(32))) = DOMPoint(R(16), R(32))

\* C4: for the reachable transform, updateOffset by (dx1, dy1) and then by
\* (dx2, dy2) gives the transform of updateOffset by the sum, and one pan
\* adds the delta to (e, f) and leaves a, b, c, d alone.
C4_PanAdditive ==
  \A e1 \in ProbePans : \A e2 \in ProbePans :
    LET t == ctx.transform
        c1 == updateOffset(ctx, e1)
        c12 == updateOffset(c1, e2)
        sum == MouseEvent("mousemove", <<0, 0>>,
                          <<e1.movementX + e2.movementX, e1.movementY + e2.movementY>>)
    IN /\ c12.transform = updateOffset(ctx, sum).transform
       /\ c1.transform = [t EXCEPT !.e = Add(t.e, R(e1.movementX)),
                                   !.f = Add(t.f, R(e1.movementY))]

\* The transform of a pan made at zoom 4: its translation is one the zoom
\* alone (about (16, 32), from the identity panned once) does not give.
C4_Witness ==
  /\ state = "panning.active"
  /\ ctx.transform.a = R(4)
  /\ ctx.transform.e = R(-16)
  /\ ctx.transform.f = R(-32)

\* C5: a pointer-move in idle.outside leads to idle.over exactly when its
\* world-space point lies strictly inside the frame, and otherwise leaves
\* idle.outside; in idle.over a point on an edge or outside leads back to
\* idle.outside and a point strictly inside stays.
StrictlyInside(g, w) ==
  /\ Lt(g.x, w.x)
  /\ Lt(w.x, Add(g.x, g.width))
  /\ Lt(g.y, w.y)
  /\ Lt(w.y, Add(g.y, g.height))

C5_HitTest ==
  InIdle(state) =>
    \A evt \in ProbeMoves :
      LET w == WorldOf(ctx.transform, <<evt.pageX, evt.pageY>>)
          out == OnMouseMove(state, ctx, canvas.cursor, canvas.transform, evt)
      IN out.state =
           IF StrictlyInside(ctx.generationFrame, w) THEN "idle.over"
           ELSE "idle.outside"

\* The machine is over the frame at zoom 1/4 with the frame moved, and one
\* of the points sent lies exactly on the frame's edge.
C5_Witness ==
  /\ state = "idle.over"
  /\ ctx.transform.a = <<1, 4>>
  /\ ctx.generationFrame.x # Zero
  /\ \E p \in Points :
       WorldOf(ctx.transform, p).x = ctx.generationFrame.x

\* C6: dragging is entered only from idle.over, by a pointer-down, and then
\* oldGenerationFrame is the generation frame as it was before the event;
\* idle.over is entered only from idle.outside on a pointer-move that
\* hit-tests inside the frame; a pointer-up in dragging leads to idle.
C6_Step ==
  /\ (state' = "dragging" /\ state # "dragging") =>
       /\ state = "idle.over"
       /\ ctx'.oldGenerationFrame = ctx.generationFrame
       /\ ctx'.generationFrame = ctx.generationFrame
  /\ (state' = "idle.over" /\ state # "idle.over") =>
       /\ state = "idle.outside"
       /\ \E evt \in MouseMoveEvents :
            isOverGenerationFrame(ctx, canvas.transform, evt)

\* The handlers, in every reachable state: no event but idle.over's
\* pointer-down leads into dragging, and dragging's pointer-up leads to idle.
C6_Handlers ==
  /\ state # "dragging" =>
       /\ \A evt \in MouseMoveEvents :
            OnMouseMove(state, ctx, canvas.cursor, canvas.transform, evt).state
              # "dragging"
       /\ \A evt \in MouseButtonEvents("mouseup") :
            OnMouseUp(state, ctx, canvas.cursor, evt).state # "dragging"
       /\ \A evt \in WheelEvents :
            OnWheel(state, ctx, canvas.cursor, evt).state # "dragging"
       /\ \A evt \in KeyboardEvents("keydown") :
            OnKeyDown(state, ctx, canvas.cursor, evt).state # "dragging"
       /\ \A evt \in KeyboardEvents("keyup") :
            OnKeyUp(state, ctx, canvas.cursor, evt).state # "dragging"
       /\ OnResize(state, ctx, canvas.cursor, [type |-> "resize"]).state
            # "dragging"
       /\ OnGenerate(state, ctx, canvas.cursor, [type |-> "GENERATE"]).state
            # "dragging"
       /\ \A evt \in MouseButtonEvents("mousedown") :
            OnMouseDown(state, ctx, canvas.cursor, evt).state = "dragging"
              <=> state = "idle.over"
  /\ state = "dragging" =>
       \A evt \in MouseButtonEvents("mouseup") :
         InIdle(OnMouseUp(state, ctx, canvas.cursor, evt).state)

\* C6: the drag life cycle, over every reachable state and every step.
C6_DragLifeCycle == []C6_Handlers /\ [][C6_Step]_vars

\* A second drag has begun, the frame moved by the first: the snapshot is
\* the moved frame.
C6_Witness ==
  /\ state = "dragging"
  /\ ctx.oldGenerationFrame = ctx.generationFrame
  /\ ctx.generationFrame.x # Zero

\* C7: while dragging, when the pointer's world-space displacement from the
\* drag-start point is a whole number of cells on both axes (zero included),
\* the pointer-move puts the frame at the drag-start origin plus exactly
\* that displacement.
C7_ExactDisplacement ==
  state = "dragging" =>
    \A evt \in ProbeMoves :
      LET from == WorldOfPoint(ctx.transform, ctx.dragStart)
          to == WorldOf(ctx.transform, <<evt.pageX, evt.pageY>>)
          dx == Sub(to.x, from.x)
          dy == Sub(to.y, from.y)
          old == ctx.oldGenerationFrame
          new == OnMouseMove(state, ctx, canvas.cursor, canvas.transform, evt)
                   .ctx.generationFrame
      IN (/\ IsMultipleOfCell(old.x) /\ IsMultipleOfCell(old.y)
          /\ IsMultipleOfCell(dx) /\ IsMultipleOfCell(dy))
         => new.x = Add(old.x, dx) /\ new.y = Add(old.y, dy)

\* At zoom 1/4 a pointer-move of 8 pixels, a cell of world space, has moved
\* the frame by a cell on both axes.
C7_Witness ==
  /\ state = "dragging"
  /\ ctx.transform.a = <<1, 4>>
  /\ ctx.generationFrame.x = Add(ctx.oldGenerationFrame.x, R(CELL_SIZE))
  /\ ctx.generationFrame.y = Add(ctx.oldGenerationFrame.y, R(CELL_SIZE))

\* C8: GENERATE in idle appends one placement with the frame's geometry and
\* keeps the earlier ones in place; no step removes a placement or changes
\* a stored one, and a step adds at most one, in idle, with the geometry of
\* the frame it was made from.
Geometry(r) == [x |-> r.x, y |-> r.y, width |-> r.width, height |-> r.height]

C8_Step ==
  LET n == Len(ctx.images)
  IN /\ Len(ctx'.images) \in {n, n + 1}
     /\ \A i \in 1..n : ctx'.images[i] = ctx.images[i]
     /\ Len(ctx'.images) = n + 1 =>
          /\ InIdle(state)
          /\ state' = state
          /\ Geometry(ctx'.images[n + 1]) = Geometry(ctx.generationFrame)
     /\ InIdle(state) =>
          LET out == OnGenerate(state, ctx, canvas.cursor, [type |-> "GENERATE"])
          IN /\ Len(out.ctx.images) = n + 1
             /\ \A i \in 1..n : out.ctx.images[i] = ctx.images[i]
             /\ Geometry(out.ctx.images[n + 1]) = Geometry(ctx.generationFrame)
             /\ out.state = state

C8_GenerateAppends == [][C8_Step]_vars

\* A placement is stored and the frame has since been dragged elsewhere.
C8_Witness ==
  /\ Len(ctx.images) = 1
  /\ ctx.images[1].x # ctx.generationFrame.x
  /\ ctx.images[1].y # ctx.generationFrame.y

\* C9 as stated: in every state a wheel event has its default prevented and
\* updates the transform (zoom with ctrl or meta, pan otherwise), the state
\* unchanged.
C9_WheelInEveryState ==
  \A evt \in WheelEvents :
    LET out == OnWheel(state, ctx, canvas.cursor, evt)
    IN /\ out.prevented
       /\ out.state = state
       /\ out.ctx.transform =
            IF evt.ctrlKey \/ evt.metaKey THEN updateScale(ctx, evt).transform
            ELSE updateOffset(ctx, evt).transform

\* C9, amended: a wheel event is handled in idle.outside and idle.over only:
\* there its default is prevented and the transform updated (with ctrl or
\* meta the scale changes by the wheel's factor about the cursor, or not at
\* all when out of range; with neither the translation changes by
\* (-deltaX, -deltaY)), the state unchanged. In dragging, panning.idle and
\* panning.active it changes nothing and its default is not prevented.
C9_WheelInIdleOnly ==
  /\ defaultPrevented => InIdle(state)
  /\ \A evt \in WheelEvents :
       LET out == OnWheel(state, ctx, canvas.cursor, evt)
           t == ctx.transform
           t2 == out.ctx.transform
           s == MathExpDelta(evt.deltaY)
           p == PagePoint(evt)
       IN /\ out.state = state
          /\ IF ~InIdle(state) THEN ~out.prevented /\ out.ctx = ctx
             ELSE /\ out.prevented
                  /\ out.ctx = [ctx EXCEPT !.transform = t2]
                  /\ IF evt.ctrlKey \/ evt.metaKey
                     THEN IF Lt(Mul(t.a, s), <<1, 10>>) \/ Gt(Mul(t.a, s), R(10))
                          THEN t2 = t
                          ELSE /\ t2.a = Mul(t.a, s)
                               /\ WorldOfPoint(t2, p) = WorldOfPoint(t, p)
                     ELSE t2 = [t EXCEPT !.e = Sub(t.e, R(evt.deltaX)),
                                         !.f = Sub(t.f, R(evt.deltaY))]

\* A wheel zoom has been taken over the frame, in idle.over.
C9_Witness ==
  /\ state = "idle.over"
  /\ defaultPrevented
  /\ ctx.transform.a = R(4)

\* C10 as stated: the context's width and height are the canvas's size,
\* also after a resize.
C10_ContextSizeIsCanvasSize ==
  /\ canvas.width = viewport.offsetWidth
  /\ canvas.height = viewport.offsetHeight
  /\ ctx.width = canvas.width
  /\ ctx.height = canvas.height

\* C11 as stated: in every state an event lacking the fields its handler
\* reads is a no-op: send() throws nothing and leaves the state and the
\* context as they were.
C11_MalformedIsNoOp ==
  \A evt \in MalformedEvents :
    LET out == Send(state, ctx, canvas.cursor, canvas.transform, evt)
    IN /\ ~out.threw
       /\ out.state = state
       /\ out.ctx = ctx

\* The coordinates a pointer-move gives the frame before snapping: the
\* drag-start origin plus the pointer's world-space displacement from the
\* drag-start point.
DragCandidate(c, evt) ==
  LET from == WorldOfPoint(c.transform, c.dragStart)
      to == WorldOfPoint(c.transform, PagePoint(evt))
  IN DOMPoint(Add(c.oldGenerationFrame.x, Sub(to.x, from.x)),
              Add(c.oldGenerationFrame.y, Sub(to.y, from.y)))

HalfCell == Div(R(CELL_SIZE), R(2))
\* v lies exactly halfway between two grid lines: v = (n + 1/2) * CELL_SIZE.
IsTie(v) == Div(v, R(CELL_SIZE))[2] = 2

\* On one axis: a tie is snapped away from zero.
TieAwayFromZero(cand, new) ==
  IsTie(cand) =>
    new = IF Gt(cand, Zero) THEN Add(cand, HalfCell) ELSE Sub(cand, HalfCell)

\* C12 as stated: while dragging, every pointer-move whose candidate is
\* halfway between two grid lines on an axis snaps that axis away from
\* zero: to (n + 1) * CELL_SIZE for a positive candidate and to
\* n * CELL_SIZE for a negative one.
C12_TiesAwayFromZero ==
  state = "dragging" =>
    \A evt \in ProbeMoves :
      LET cand == DragCandidate(ctx, evt)
          new == OnMouseMove(state, ctx, canvas.cursor, canvas.transform, evt)
                   .ctx.generationFrame
      IN TieAwayFromZero(cand.x, new.x) /\ TieAwayFromZero(cand.y, new.y)

\* C12, amended, on one axis: the snapped value is a multiple of the cell
\* size at most half a cell from the candidate, and a tie is snapped to the
\* larger of its two neighbours, (n + 1) * CELL_SIZE, whatever its sign.
NearestTieUp(cand, new) ==
  /\ IsMultipleOfCell(new)
  /\ Leq(Sub(new, cand), HalfCell)
  /\ Leq(Sub(cand, new), HalfCell)
  /\ IsTie(cand) => new = Add(cand, HalfCell)

\* C12, amended: while dragging, every pointer-move snaps each axis of the
\* candidate on its own to the nearest multiple of the cell size, a tie
\* going to the larger multiple (toward plus infinity) for positive and
\* negative candidates alike.
C12_TiesTowardPlusInfinity ==
  state = "dragging" =>
    \A evt \in ProbeMoves :
      LET cand == DragCandidate(ctx, evt)
          new == OnMouseMove(state, ctx, canvas.cursor, canvas.transform, evt)
                   .ctx.generationFrame
      IN NearestTieUp(cand.x, new.x) /\ NearestTieUp(cand.y, new.y)

\* The frame stands where a pointer-move with a negative tie as candidate
\* (half a cell left of and above the origin) has put it: at the origin.
C12_Witness ==
  /\ state = "dragging"
  /\ ctx.generationFrame.x = Zero
  /\ ctx.oldGenerationFrame.x # Zero
  /\ \E evt \in MouseMoveEvents :
       /\ DragCandidate(ctx, evt) = DOMPoint(Neg(HalfCell), Neg(HalfCell))
       /\ updateGenerationFrame(ctx, evt).generationFrame = ctx.generationFrame

\* Wheel events with neither ctrl nor meta held, with the deltas the claims
\* about single handlers are tried on.
ProbeWheelPans ==
  {WheelEvent(p, d, FALSE, FALSE) : p \in WheelPoints, d \in ProbeDeltas}

\* C13 as stated: in idle a wheel event with neither modifier changes the
\* translation (e, f) by (deltaX, deltaY) and leaves the scale alone.
C13_WheelPansByDelta ==
  InIdle(state) =>
    \A evt \in ProbeWheelPans :
      LET t == ctx.transform
      IN OnWheel(state, ctx, canvas.cursor, evt).ctx.transform =
           [t EXCEPT !.e = Add(t.e, R(evt.deltaX)),
                     !.f = Add(t.f, R(evt.deltaY))]

\* C13, amended: in idle a wheel event with neither modifier pans by the
\* negated wheel deltas: the translation (e, f) changes by
\* (-deltaX, -deltaY), which is T.scale(1/T.a).translate(-deltaX,
\* -deltaY).scale(T.a), and the scale is unchanged.
C13_WheelPansByNegatedDelta ==
  InIdle(state) =>
    \A evt \in ProbeWheelPans :
      LET t == ctx.transform
          t2 == OnWheel(state, ctx, canvas.cursor, evt).ctx.transform
      IN /\ t2 = [t EXCEPT !.e = Sub(t.e, R(evt.deltaX)),
                           !.f = Sub(t.f, R(evt.deltaY))]
         /\ t2 = Scale(Translate(Scale(t, Div(One, t.a)),
                                 R(-evt.deltaX), R(-evt.deltaY)), t.a)

\* A wheel event was handled last, in idle, and the view stands at zoom 4
\* panned up and left by one wheel step.
C13_Witness ==
  /\ InIdle(state)
  /\ defaultPrevented
  /\ ctx.transform.a = R(4)
  /\ ctx.transform.e = R(-16)
  /\ ctx.transform.f = R(-32)

\* C14 as stated: a key-down leads into panning only from idle and only
\* when the key is space; in panning.idle and panning.active the key-up of
\* space leads to idle and the key-up of any other key leaves the state
\* unchanged.
C14_PanningBracketedBySpace ==
  /\ \A evt \in KeyboardEvents("keydown") :
       LET out == OnKeyDown(state, ctx, canvas.cursor, evt)
       IN (InPanning(out.state) /\ ~InPanning(state))
            <=> (InIdle(state) /\ evt.key = " ")
  /\ InPanning(state) =>
       \A evt \in KeyboardEvents("keyup") :
         OnKeyUp(state, ctx, canvas.cursor, evt).state =
           IF evt.key = " " THEN "idle.outside" ELSE state

\* Zoom wheel events at the probe points, with ctrl or with meta held.
ProbeZoomsCtrlOrMeta ==
  ProbeZooms \cup
  {WheelEvent(p, <<0, dy>>, FALSE, TRUE) : p \in WheelPoints, dy \in ZoomDeltaYs}

\* C15: in idle, a ctrl or meta wheel event whose factor would take the
\* horizontal scale below 0.1 or above 10 leaves the state and the whole
\* context (transform with its translation, frame, drag data, placements)
\* as they were, and the same wheel turned the other way is then accepted:
\* it changes the scale by its factor.
C15_RejectedZoomKeepsContext ==
  InIdle(state) =>
    \A evt \in ProbeZoomsCtrlOrMeta :
      LET a2 == Mul(ctx.transform.a, MathExpDelta(evt.deltaY))
          out == OnWheel(state, ctx, canvas.cursor, evt)
          back == [evt EXCEPT !.deltaY = -evt.deltaY]
          out2 == OnWheel(out.state, out.ctx, out.cursor, back)
      IN (Lt(a2, <<1, 10>>) \/ Gt(a2, R(10))) =>
           /\ out.state = state
           /\ out.ctx = ctx
           /\ ~out.threw
           /\ out2.state = state
           /\ out2.ctx.transform.a =
                Mul(ctx.transform.a, MathExpDelta(back.deltaY))
           /\ out2.ctx.transform.a # ctx.transform.a

\* A wheel event was handled last, over the frame, at the smallest zoom the
\* wheel steps reach: a further zoom out is one the bound rejects. The view
\* is panned, the frame dragged off the origin and a placement stored.
C15_Witness ==
  /\ state = "idle.over"
  /\ defaultPrevented
  /\ ctx.transform.a = <<1, 4>>
  /\ ctx.transform.e # Zero
  /\ ctx.generationFrame.x # Zero
  /\ Len(ctx.images) = 1
  /\ \E evt \in WheelEvents :
       /\ evt.metaKey
       /\ Mul(ctx.transform.a, MathExpDelta(evt.deltaY)) = <<1, 16>>
       /\ OnWheel(state, ctx, canvas.cursor, evt).ctx = ctx

\* Every event the model sends.
AllEvents ==
  MouseMoveEvents \cup MouseButtonEvents("mousedown")
  \cup MouseButtonEvents("mouseup") \cup WheelEvents
  \cup KeyboardEvents("keydown") \cup KeyboardEvents("keyup")
  \cup {[type |-> "resize"], [type |-> "GENERATE"]} \cup MalformedEvents

CursorOf(s) ==
  CASE s = "idle.outside" -> "default"
    [] s = "idle.over" -> "pointer"
    [] s = "dragging" -> "grabbing"
    [] s = "panning.idle" -> "grab"
    [] s = "panning.active" -> "grabbing"

\* C16: in every reachable state the canvas's cursor is the one of the
\* machine's state (default in idle.outside, pointer in idle.over, grabbing
\* in dragging, grab in panning.idle, grabbing in panning.active), every
\* event leaves it so, and a pointer-up in dragging and a key-up in panning
\* land in idle.outside with the default cursor.
C16_CursorOfState ==
  /\ canvas.cursor = CursorOf(state)
  /\ \A evt \in AllEvents :
       LET out == Send(state, ctx, canvas.cursor, canvas.transform, evt)
       IN /\ out.cursor = CursorOf(out.state)
          /\ (InIdle(out.state) /\ ~InIdle(state)) =>
               (out.state = "idle.outside" /\ out.cursor = "default")

\* Back in idle.outside with the default cursor after a drag that moved the
\* frame.
C16_Witness ==
  /\ state = "idle.outside"
  /\ canvas.cursor = "default"
  /\ ctx.generationFrame.x # ctx.oldGenerationFrame.x
  /\ ctx.dragStart # DOMPoint(Zero, Zero)

\* C17: in every reachable state, which is where the guard of the next
\* pointer-move is evaluated, the surface's transform equals the context's
\* transform, so the hit test of every pointer-move gives with the one the
\* verdict it gives with the other.
C17_SurfaceInSync ==
  /\ canvas.transform = ctx.transform
  /\ \A evt \in ProbeMoves :
       isOverGenerationFrame(ctx, canvas.transform, evt)
         <=> StrictlyInside(ctx.generationFrame,
                            WorldOfPoint(ctx.transform, PagePoint(evt)))

\* The canvas has been resized, which reset the surface, and the surface
\* stands on the context's zoomed and panned transform.
C17_Witness ==
  /\ canvas.width = 1024
  /\ ctx.transform.a = <<1, 4>>
  /\ ctx.transform.e = R(-4)
  /\ canvas.transform = ctx.transform
  /\ state = "idle.over"

\* C18: a pointer-move in panning.active and a wheel event in idle change
\* no context field but the transform (generationFrame, oldGenerationFrame,
\* dragStart and images stay), and a pointer-move in idle.outside,
\* idle.over or panning.idle changes no context field at all.
C18_PanZoomTransformOnly ==
  /\ state = "panning.active" =>
       \A evt \in MouseMoveEvents \cup ProbePans \cup ProbeMoves :
         LET out == OnMouseMove(state, ctx, canvas.cursor, canvas.transform, evt)
         IN out.ctx = [ctx EXCEPT !.transform = out.ctx.transform]
  /\ InIdle(state) =>
       \A evt \in WheelEvents \cup ProbeZoomsCtrlOrMeta \cup ProbeWheelPans :
         LET out == OnWheel(state, ctx, canvas.cursor, evt)
         IN out.ctx = [ctx EXCEPT !.transform = out.ctx.transform]
  /\ (InIdle(state) \/ state = "panning.idle") =>
       \A evt \in MouseMoveEvents \cup ProbePans \cup ProbeMoves :
         OnMouseMove(state, ctx, canvas.cursor, canvas.transform, evt).ctx = ctx

\* The view has been panned, in panning.active, with the frame dragged off
\* its snapshot earlier, a drag-start point kept and a placement stored.
C18_Witness ==
  /\ state = "panning.active"
  /\ ctx.transform.a = One
  /\ ctx.transform.e = R(16)
  /\ ctx.generationFrame.x # ctx.oldGenerationFrame.x
  /\ ctx.dragStart # DOMPoint(Zero, Zero)
  /\ Len(ctx.images) = 1

\* Pointer-moves to the points the model sends, as intermediate moves.
MovesBetween == {MouseEvent("mousemove", p, <<0, 0>>) : p \in Points}

\* C19: (1) a pointer-down in idle.over stores a drag-start point whose
\* world-space point is the pointer's at that moment; (2) while dragging no
\* event changes the transform, dragStart, oldGenerationFrame or the
\* placements, none but a pointer-up leaves dragging, and so the world
\* point of dragStart stays the one at pointer-down; (3) the frame a
\* pointer-move gives is the same after any intermediate move as without
\* it, and the same whatever the frame was before the move.
C19_DragMathStateless ==
  /\ state = "idle.over" =>
       \A evt \in MouseButtonEvents("mousedown") :
         LET out == OnMouseDown(state, ctx, canvas.cursor, evt)
         IN /\ out.state = "dragging"
            /\ WorldOfPoint(out.ctx.transform, out.ctx.dragStart)
                 = TransformPoint(Inverse(ctx.transform), PagePoint(evt))
  /\ state = "dragging" =>
       \A evt \in AllEvents :
         LET out == Send(state, ctx, canvas.cursor, canvas.transform, evt)
         IN /\ out.ctx.transform = ctx.transform
            /\ out.ctx.dragStart = ctx.dragStart
            /\ out.ctx.oldGenerationFrame = ctx.oldGenerationFrame
            /\ out.ctx.images = ctx.images
            /\ out.state # "dragging" =>
                 (evt.type = "mouseup" /\ out.state = "idle.outside")
            /\ TransformPoint(Inverse(out.ctx.transform), out.ctx.dragStart)
                 = TransformPoint(Inverse(ctx.transform), ctx.dragStart)
  /\ state = "dragging" =>
       \A e1 \in MovesBetween : \A e2 \in ProbeMoves :
         LET c1 == OnMouseMove(state, ctx, canvas.cursor, canvas.transform, e1).ctx
             c0 == [ctx EXCEPT !.generationFrame = ctx.oldGenerationFrame]
             direct == OnMouseMove(state, ctx, canvas.cursor, canvas.transform, e2)
                         .ctx.generationFrame
         IN /\ OnMouseMove(state, c1, canvas.cursor, canvas.transform, e2)
                 .ctx.generationFrame = direct
            /\ OnMouseMove(state, c0, canvas.cursor, canvas.transform, e2)
                 .ctx.generationFrame = direct

\* A drag begun at (48, 48) in a panned view has moved the frame off its
\* snapshot.
C19_Witness ==
  /\ state = "dragging"
  /\ ctx.transform.a = One
  /\ ctx.transform.e = R(16)
  /\ ctx.dragStart = DOMPoint(R(48), R(48))
  /\ ctx.generationFrame.x # ctx.oldGenerationFrame.x

\* C20 as stated: whenever the machine is in idle.over, the position of the
\* most recent pointer-move lies strictly inside the generation frame under
\* the current transform.
C20_HoverNeverStale ==
  state = "idle.over" =>
    /\ hoverMove # {}
    /\ \A p \in hoverMove :
         StrictlyInside(ctx.generationFrame, WorldOfPoint(ctx.transform, p))

====
